---- MODULE Spec2Model ----
(***************************************************************************)
(* Warehouse monitoring dashboard (warehouse_monitoring_dash.py).          *)
(*                                                                         *)
(* The program generates a frame of simulated task records at import time  *)
(* (generate_data), declares three filter controls whose options are       *)
(* derived from that frame, and registers one callback, update_dashboard,  *)
(* which the framework invokes on page load and on every change of a       *)
(* control.  The callback filters a copy of the frame and derives the KPI  *)
(* strings and chart inputs.                                               *)
(*                                                                         *)
(* Units: instants are whole minutes since day 0, 00:00; a calendar date   *)
(* is a day number; durations and percentages are carried in hundredths so *)
(* that the two-decimal formatting is computed, not assumed.               *)
(***************************************************************************)
EXTENDS Integers, Sequences, FiniteSets, TLC

VARIABLES
    pc,           \* "start" | "layout" | "serving"
    df,           \* the module-level DataFrame: a sequence of records
    start_date,   \* date-range control, property start_date
    end_date,     \* date-range control, property end_date
    machine_id,   \* machine-dropdown value
    error_codes,  \* error-code-dropdown value (multi)
    out           \* what the last update_dashboard call returned

vars == <<pc, df, start_date, end_date, machine_id, error_codes, out>>

---------------------------------------------------------------------------
(* Bounds of the model *)

MaxN == 2          \* rows generated at startup (the program uses n = 1000)
MaxTasks == 32     \* rows of a uniform batch (specification SpecKpi)

---------------------------------------------------------------------------
(* Program constants *)

MinutesPerDay == 1440
MaxOffset == 1440
MachineLo == 1
MachineHi == 5
DurationLo == 500
DurationHi == 6000
SuccessWeight == 9

\* datetime.now() at generation time: day 1, 10:00
Now == 2040

StatusPool == [i \in 1..(SuccessWeight + 1) |->
                  IF i <= SuccessWeight THEN "success" ELSE "failure"]
ErrorPool == <<"E-100", "E-200", "E-300">>
NoErrorPool == <<"None">>

Range(s) == {s[i] : i \in DOMAIN s}

\* values random.randint(0, 1440) is drawn from here: both ends of the range
Offsets == {0, MaxOffset}
\* values random.randint(1, 5) is drawn from here: both ends of the range
MachineNums == {MachineLo, MachineHi}
\* values round(random.uniform(5.0, 60.0), 2) is drawn from here (hundredths)
Durations == {DurationLo}

---------------------------------------------------------------------------
(* Python values that reach the callback: None, a str, a list.  A str or   *)
(* list carries its content as a sequence, so that its truth value is      *)
(* "length > 0" as in Python.                                              *)

PyNone == [type |-> "NoneType", v |-> <<>>]
EmptyStr == [type |-> "str", v |-> <<>>]
PyStr(x) == [type |-> "str", v |-> <<x>>]
PyList(l) == [type |-> "list", v |-> l]

\* `if x:` for None, str and list
Truthy(x) == x.type # "NoneType" /\ Len(x.v) > 0

\* Timestamp.date() / Series.dt.date: the calendar date of an instant
DateOf(t) == t \div MinutesPerDay
\* what the framework hands to the callback for a date d: "YYYY-MM-DD"
DateStr(d) == PyStr(d)
\* pd.to_datetime("YYYY-MM-DD"): midnight of that date
pd_to_datetime(s) == s.v[1] * MinutesPerDay

---------------------------------------------------------------------------
(* generate_data *)

\* f"M-{random.randint(1, 5)}"
MachineName(k) == "M-" \o ToString(k)

\* variant: the condition of the choice tests for "success"
ErrorChoices_inverted(s) == Range(IF s = "success" THEN ErrorPool ELSE NoErrorPool)

\* random.choice(["E-100", "E-200", "E-300"] if s == "failure" else ["None"])
ErrorChoices(s) == Range(IF s = "failure" THEN ErrorPool ELSE NoErrorPool)

\* the (status, error_code) pairs the two comprehensions can produce
StatusAndCode ==
    UNION {{<<s, c>> : c \in ErrorChoices(s)} : s \in Range(StatusPool)}

\* one row of the returned DataFrame
Rows ==
    {[timestamp |-> Now - o,
      machine_id |-> MachineName(k),
      task_duration |-> d,
      status |-> sc[1],
      error_code |-> sc[2]] :
        o \in Offsets, k \in MachineNums, d \in Durations, sc \in StatusAndCode}

\* every frame generate_data(n) can return
generate_data(n) == [1..n -> Rows]

\* a frame generate_data(n + extra) can return: k successes and n - k
\* failures of one machine logged now, after an optional row of another
\* machine logged a day earlier
BatchRow(s) ==
    [timestamp |-> Now,
     machine_id |-> MachineName(MachineLo),
     task_duration |-> DurationLo,
     status |-> s,
     error_code |-> IF s = "failure" THEN ErrorPool[1] ELSE NoErrorPool[1]]

OtherRow ==
    [timestamp |-> Now - MaxOffset,
     machine_id |-> MachineName(MachineHi),
     task_duration |-> DurationLo,
     status |-> "success",
     error_code |-> NoErrorPool[1]]

uniform_batch(n, k, extra) ==
    (IF extra THEN <<OtherRow>> ELSE <<>>)
        \o [i \in 1..n |-> BatchRow(IF i <= k THEN "success" ELSE "failure")]

---------------------------------------------------------------------------
(* Layout: the values the controls start with and can take *)

RowDates(f) == {DateOf(f[i].timestamp) : i \in DOMAIN f}
MinDate(f) == CHOOSE d \in RowDates(f) : \A e \in RowDates(f) : d <= e
MaxDate(f) == CHOOSE d \in RowDates(f) : \A e \in RowDates(f) : e <= d

\* start_date=df["timestamp"].min().date(), end_date=df["timestamp"].max().date()
initial_start_date(f) == DateStr(MinDate(f))
initial_end_date(f) == DateStr(MaxDate(f))

\* DatePickerRange between min_date_allowed and max_date_allowed; a cleared
\* side is None
DateOptions(f) ==
    {PyNone} \cup {DateStr(d) : d \in MinDate(f)..MaxDate(f)}

\* machine-dropdown: the machine ids of the frame; cleared is None (or "")
MachineOptions(f) ==
    {PyNone, EmptyStr} \cup {PyStr(f[i].machine_id) : i \in DOMAIN f}

\* error-code-dropdown options: the error codes of the frame except "None"
ErrorCodeOptions(f) == {f[i].error_code : i \in DOMAIN f} \ {"None"}

\* what a multi dropdown can hold: None, [] or a list of options, here in
\* the order the dropdown lists them
ErrorCodeSelections(f) ==
    {PyNone} \cup
    {PyList(SelectSeq(ErrorPool, LAMBDA c : c \in T)) : T \in SUBSET ErrorCodeOptions(f)}

---------------------------------------------------------------------------
(* update_dashboard: filtering *)

\* Series.isin(list)
isin(c, l) == \E i \in DOMAIN l : l[i] = c

\* variant: the lower bound is exclusive
filter_start_strict(f, sd) ==
    IF Truthy(sd)
    THEN SelectSeq(f, LAMBDA r : DateOf(r.timestamp) > DateOf(pd_to_datetime(sd)))
    ELSE f

\* if start_date: keep timestamp.dt.date >= pd.to_datetime(start_date).date()
filter_start(f, sd) ==
    IF Truthy(sd)
    THEN SelectSeq(f, LAMBDA r : DateOf(r.timestamp) >= DateOf(pd_to_datetime(sd)))
    ELSE f

\* variant: the instant, not its date, is compared with the bound
filter_end_timestamp(f, ed) ==
    IF Truthy(ed)
    THEN SelectSeq(f, LAMBDA r : r.timestamp <= pd_to_datetime(ed))
    ELSE f

\* if end_date: keep timestamp.dt.date <= pd.to_datetime(end_date).date()
filter_end(f, ed) ==
    IF Truthy(ed)
    THEN SelectSeq(f, LAMBDA r : DateOf(r.timestamp) <= DateOf(pd_to_datetime(ed)))
    ELSE f

\* variant: the first matching row is sliced off
filter_machine_drop_first(f, m) ==
    IF Truthy(m)
    THEN LET g == SelectSeq(f, LAMBDA r : r.machine_id = m.v[1])
         IN  IF g = <<>> THEN g ELSE Tail(g)
    ELSE f

\* if machine_id: keep machine_id == machine_id
filter_machine(f, m) ==
    IF Truthy(m)
    THEN SelectSeq(f, LAMBDA r : r.machine_id = m.v[1])
    ELSE f

\* variant: the filter is applied whether or not a code is selected
filter_error_codes_unguarded(f, ec) ==
    SelectSeq(f, LAMBDA r : isin(r.error_code, ec.v))

\* variant: the mask is negated
filter_error_codes_negated(f, ec) ==
    IF Truthy(ec)
    THEN SelectSeq(f, LAMBDA r : ~isin(r.error_code, ec.v))
    ELSE f

\* if error_codes: keep error_code.isin(error_codes)
filter_error_codes(f, ec) ==
    IF Truthy(ec)
    THEN SelectSeq(f, LAMBDA r : isin(r.error_code, ec.v))
    ELSE f

\* the four filters in the order of the source, starting from df.copy()
apply_filters(f, sd, ed, m, ec) ==
    filter_error_codes(filter_machine(filter_end(filter_start(f, sd), ed), m), ec)

---------------------------------------------------------------------------
(* update_dashboard: KPIs *)

\* The integers a quotient a / b rounds to.  Off a tie it is the nearest
\* one.  On an exact tie the binary64 quotient may sit on either side of
\* the half, so both neighbours are outcomes.
RoundDiv(a, b) ==
    LET q == a \div b
        r == a % b
    IN  IF 2 * r < b THEN {q}
        ELSE IF 2 * r > b THEN {q + 1}
        ELSE {q, q + 1}

RECURSIVE GCD(_, _)
GCD(a, b) == IF b = 0 THEN a ELSE GCD(b, a % b)

IsPow2(n) == \E e \in 0..30 : n = 2 ^ e

\* (count / total) * 100 to two decimals, in hundredths.  count / total is
\* exact in binary64 when the reduced denominator is a power of two, and
\* then the tie goes to the even neighbour (1 / 32 * 100 prints as 3.12);
\* otherwise the tie may go either way (23 / 160 * 100 prints as 14.37,
\* 49 / 160 * 100 as 30.63).
RoundPct(count, total) ==
    LET a == 10000 * count
        q == a \div total
        r == a % total
    IN  IF 2 * r < total THEN {q}
        ELSE IF 2 * r > total THEN {q + 1}
        ELSE IF IsPow2(total \div GCD(count, total))
             THEN {IF q % 2 = 0 THEN q ELSE q + 1}
             ELSE {q, q + 1}

\* f"{x:.2f}" of a non-negative x given in hundredths
FormatF2(h) ==
    ToString(h \div 100) \o "." \o ToString((h % 100) \div 10) \o ToString(h % 10)

ZeroDivisionError == "ZeroDivisionError"

\* f"{((count / total) * 100):.2f}%"
pct_str(count, total) ==
    IF total = 0 THEN {ZeroDivisionError}
    ELSE {FormatF2(h) \o "%" : h \in RoundPct(count, total)}

RECURSIVE SumDuration(_)
SumDuration(f) ==
    IF f = <<>> THEN 0 ELSE Head(f).task_duration + SumDuration(Tail(f))

\* f"{filtered_df['task_duration'].mean():.2f}"; the mean of no rows is NaN
mean_str(f) ==
    IF Len(f) = 0 THEN {"nan"}
    ELSE {FormatF2(h) : h \in RoundDiv(SumDuration(f), Len(f))}

\* variant: no guard on total_tasks
success_rate_unguarded(success_count, total_tasks) ==
    pct_str(success_count, total_tasks)

success_rate_of(success_count, total_tasks) ==
    IF total_tasks > 0 THEN pct_str(success_count, total_tasks) ELSE {"0%"}

avg_duration_of(f) ==
    IF Len(f) # 0 THEN mean_str(f) ELSE {"0.00"}

\* variant: the ratio is not multiplied by 100
failure_rate_no_percent(success_count, total_tasks) ==
    IF total_tasks > 0
    THEN {FormatF2(h) \o "%" : h \in RoundDiv(100 * (total_tasks - success_count), total_tasks)}
    ELSE {"0%"}

failure_rate_of(success_count, total_tasks) ==
    IF total_tasks > 0 THEN pct_str(total_tasks - success_count, total_tasks) ELSE {"0%"}

\* rows with a given status: filtered_df[filtered_df["status"] == s]
with_status(f, s) == SelectSeq(f, LAMBDA r : r.status = s)

\* variant: the bar chart is given every row, not only the failures
error_distribution_all_rows(f) ==
    [c \in {f[i].error_code : i \in DOMAIN f} |->
        Cardinality({i \in DOMAIN f : f[i].error_code = c})]

\* bar heights of px.bar(frame, x="error_code"): rows per error code
error_distribution_of(f) ==
    LET g == with_status(f, "failure")
    IN  [c \in {g[i].error_code : i \in DOMAIN g} |->
            Cardinality({i \in DOMAIN g : g[i].error_code = c})]

\* filtered_df.groupby("machine_id")["status"].count()
machine_performance_of(f) ==
    [m \in {f[i].machine_id : i \in DOMAIN f} |->
        Cardinality({i \in DOMAIN f : f[i].machine_id = m})]

---------------------------------------------------------------------------
(* update_dashboard: the whole callback.  The result is the set of         *)
(* outcomes of one call: the module-level frame after the call, whether    *)
(* the call raised, and the values returned to the framework.              *)

\* everything after the filtering, for the frame the filters left
callback_outcomes(gdf, filtered_df) ==
    LET total_tasks == Len(filtered_df)
        success_count == Len(with_status(filtered_df, "success"))
    IN  {[df |-> gdf,
          raised |-> (sr = ZeroDivisionError \/ fr = ZeroDivisionError),
          filtered_df |-> filtered_df,
          total_tasks |-> total_tasks,
          success_rate |-> sr,
          avg_duration |-> ad,
          failure_rate |-> fr,
          error_distribution |-> error_distribution_of(filtered_df),
          machine_performance |-> machine_performance_of(filtered_df)] :
            sr \in success_rate_of(success_count, total_tasks),
            ad \in avg_duration_of(filtered_df),
            fr \in failure_rate_of(success_count, total_tasks)}

\* variant: the filtered frame is assigned to the module-level df
update_dashboard_assigns_df(gdf, sd, ed, m, ec) ==
    callback_outcomes(apply_filters(gdf, sd, ed, m, ec),
                      apply_filters(gdf, sd, ed, m, ec))

\* filtered_df = df.copy(), then the filters: df itself is not assigned
update_dashboard(gdf, sd, ed, m, ec) ==
    callback_outcomes(gdf, apply_filters(gdf, sd, ed, m, ec))

\* the part of an outcome the framework receives
Returned(o) ==
    [raised |-> o.raised,
     filtered_df |-> o.filtered_df,
     total_tasks |-> o.total_tasks,
     success_rate |-> o.success_rate,
     avg_duration |-> o.avg_duration,
     failure_rate |-> o.failure_rate,
     error_distribution |-> o.error_distribution,
     machine_performance |-> o.machine_performance]

NoOutput ==
    [raised |-> FALSE,
     filtered_df |-> <<>>,
     total_tasks |-> 0,
     success_rate |-> "",
     avg_duration |-> "",
     failure_rate |-> "",
     error_distribution |-> <<>>,
     machine_performance |-> <<>>]

---------------------------------------------------------------------------
(* The state machine *)

Init ==
    /\ pc = "start"
    /\ df = <<>>
    /\ start_date = PyNone
    /\ end_date = PyNone
    /\ machine_id = PyNone
    /\ error_codes = PyNone
    /\ out = NoOutput

\* app.layout: the controls' initial values for the frame f
Layout(f) ==
    /\ df' = f
    /\ start_date' = initial_start_date(f)
    /\ end_date' = initial_end_date(f)
    /\ machine_id' = PyNone
    /\ error_codes' = PyNone
    /\ out' = out
    /\ pc' = "layout"

\* df = generate_data(); pd.to_datetime leaves the datetimes as they are
Startup ==
    /\ pc = "start"
    /\ \E n \in 1..MaxN : \E f \in generate_data(n) : Layout(f)

\* the same, for a uniform batch
StartupBatch ==
    /\ pc = "start"
    /\ \E n \in 1..MaxTasks : \E k \in 0..n : \E extra \in BOOLEAN :
          Layout(uniform_batch(n, k, extra))

\* the framework calls update_dashboard with the controls' values
Callback(sd, ed, m, ec) ==
    \E o \in update_dashboard(df, sd, ed, m, ec) :
        /\ df' = o.df
        /\ out' = Returned(o)

\* the page is loaded: the callback fires with the initial values
InitialLoad ==
    /\ pc = "layout"
    /\ pc' = "serving"
    /\ UNCHANGED <<start_date, end_date, machine_id, error_codes>>
    /\ Callback(start_date, end_date, machine_id, error_codes)

ChangeStartDate ==
    /\ pc = "serving"
    /\ \E v \in DateOptions(df) :
          /\ start_date' = v
          /\ Callback(v, end_date, machine_id, error_codes)
    /\ UNCHANGED <<pc, end_date, machine_id, error_codes>>

ChangeEndDate ==
    /\ pc = "serving"
    /\ \E v \in DateOptions(df) :
          /\ end_date' = v
          /\ Callback(start_date, v, machine_id, error_codes)
    /\ UNCHANGED <<pc, start_date, machine_id, error_codes>>

SelectMachine ==
    /\ pc = "serving"
    /\ \E v \in MachineOptions(df) :
          /\ machine_id' = v
          /\ Callback(start_date, end_date, v, error_codes)
    /\ UNCHANGED <<pc, start_date, end_date, error_codes>>

SelectErrorCodes ==
    /\ pc = "serving"
    /\ \E v \in ErrorCodeSelections(df) :
          /\ error_codes' = v
          /\ Callback(start_date, end_date, machine_id, v)
    /\ UNCHANGED <<pc, start_date, end_date, machine_id>>

Next ==
    \/ Startup
    \/ InitialLoad
    \/ ChangeStartDate
    \/ ChangeEndDate
    \/ SelectMachine
    \/ SelectErrorCodes

Spec == Init /\ [][Next]_vars

NextKpi ==
    \/ StartupBatch
    \/ InitialLoad
    \/ ChangeStartDate
    \/ ChangeEndDate
    \/ SelectMachine
    \/ SelectErrorCodes

SpecKpi == Init /\ [][NextKpi]_vars

---------------------------------------------------------------------------
(* Vocabulary of the properties *)

\* a criterion is absent: None, the empty string or the empty list
Absent(x) == x = PyNone \/ x = EmptyStr \/ x = PyList(<<>>)

\* the calendar date of a record
DayOfRow(r) == r.timestamp \div MinutesPerDay

\* reading a percentage text back: the hundredths h whose two-decimal text
\* followed by "%" is s
Hundredths == 0..10000
PctText == [h \in Hundredths |-> FormatF2(h) \o "%"]
PctTexts == {PctText[h] : h \in Hundredths}
\* the texts with whole part i, and the whole part of a text
PctBucket == [i \in 0..100 |-> {PctText[h] : h \in {k \in Hundredths : k \div 100 = i}}]
WholePart(s) == CHOOSE i \in 0..100 : s \in PctBucket[i]
PctValue ==
    [s \in PctTexts |->
        CHOOSE h \in {k \in (100 * WholePart(s))..(100 * WholePart(s) + 99) : k \in Hundredths} :
            PctText[h] = s]

Abs(x) == IF x < 0 THEN -x ELSE x

\* s is the two-decimal text of 100 * count / total
IsPctOf(s, count, total) ==
    /\ s \in PctTexts
    /\ 2 * Abs(PctValue[s] * total - 10000 * count) <= total

\* number of rows of f on machine m with status st
CountRows(f, m, st) ==
    Cardinality({i \in DOMAIN f : f[i].machine_id = m /\ f[i].status = st})

---------------------------------------------------------------------------
(* Properties *)

\* C1: with every criterion absent (start_date, end_date, machine_id None
\* or empty, error_codes None or []), the filtered set the callback returns
\* is the whole record set, same records in the same order.
C1_NoCriteriaReturnsAll ==
    (/\ pc = "serving"
     /\ Absent(start_date) /\ Absent(end_date)
     /\ Absent(machine_id) /\ Absent(error_codes))
        => out.filtered_df = df

C1_Witness ==
    /\ pc = "serving"
    /\ start_date = PyNone /\ end_date = PyNone
    /\ machine_id = EmptyStr /\ error_codes = PyList(<<>>)
    /\ Len(df) >= 2
    /\ out.filtered_df = df

\* a record's date lies in the window of the two date controls; an absent
\* side does not bound
InWindow(r) ==
    /\ Absent(start_date) \/ start_date.v[1] <= DayOfRow(r)
    /\ Absent(end_date) \/ DayOfRow(r) <= end_date.v[1]

\* C2: the date filter keeps exactly the records whose calendar date d has
\* start <= d <= end, both inclusive, an absent bound being no bound: every
\* returned record is in the window, and with no machine and no error code
\* selected the returned records are the records of df in the window, in
\* order (so start > end returns nothing).
C2_DateWindowInclusive ==
    pc = "serving" =>
        /\ \A i \in DOMAIN out.filtered_df : InWindow(out.filtered_df[i])
        /\ (Absent(machine_id) /\ Absent(error_codes)) =>
              out.filtered_df = SelectSeq(df, InWindow)

C2_Witness ==
    /\ pc = "serving"
    /\ ~Absent(start_date) /\ start_date = end_date
    /\ Absent(machine_id) /\ Absent(error_codes)
    /\ Len(out.filtered_df) > 0
    /\ Len(out.filtered_df) < Len(df)
    /\ \E i \in DOMAIN out.filtered_df :
          out.filtered_df[i].timestamp > start_date.v[1] * MinutesPerDay

\* C3: when the criteria select no record the call does not raise and
\* returns total 0, avg_duration "0.00", success_rate "0%" and
\* failure_rate "0%".
C3_EmptySelectionZeroKpis ==
    (pc = "serving" /\ out.filtered_df = <<>>) =>
        /\ ~out.raised
        /\ out.total_tasks = 0
        /\ out.avg_duration = "0.00"
        /\ out.success_rate = "0%"
        /\ out.failure_rate = "0%"

C3_Witness ==
    /\ pc = "serving"
    /\ ~Absent(start_date) /\ ~Absent(end_date)
    /\ start_date.v[1] > end_date.v[1]
    /\ Len(df) >= 2
    /\ out.filtered_df = <<>>
    /\ out.total_tasks = 0
    /\ out.success_rate = "0%"

\* C4: for a non-empty filtered set the reported success_rate and
\* failure_rate are two-decimal percentages that add up to 100 within 0.01.
C4_RatesSumTo100 ==
    (pc = "serving" /\ out.total_tasks > 0) =>
        /\ out.success_rate \in PctTexts
        /\ out.failure_rate \in PctTexts
        /\ Abs(PctValue[out.success_rate] + PctValue[out.failure_rate] - 10000) <= 1

\* a filtered set whose two rates are both rounded at a tie
C4_Witness ==
    /\ pc = "serving"
    /\ out.total_tasks = 32
    /\ out.success_rate = "3.12%"
    /\ out.failure_rate = "96.88%"

\* C5: filtering is idempotent: the filters applied with the same criteria
\* to the set just returned give that set again, and a call made with the
\* criteria of the call before it returns the same filtered set.
C5_FilterIdempotent ==
    [][pc' = "serving" =>
          /\ apply_filters(out'.filtered_df, start_date', end_date',
                           machine_id', error_codes') = out'.filtered_df
          /\ (/\ pc = "serving"
              /\ start_date' = start_date /\ end_date' = end_date
              /\ machine_id' = machine_id /\ error_codes' = error_codes)
                 => out'.filtered_df = out.filtered_df]_vars

C5_Witness ==
    /\ pc = "serving"
    /\ ~Absent(start_date) /\ ~Absent(machine_id) /\ ~Absent(error_codes)
    /\ Len(out.filtered_df) > 0
    /\ Len(out.filtered_df) < Len(df)

\* C6: every generated record has error_code "None" exactly when its
\* status is success, and an error code of E-100, E-200, E-300 when its
\* status is failure.
C6_ErrorCodeMatchesStatus ==
    \A i \in DOMAIN df :
        /\ (df[i].error_code = "None") <=> (df[i].status = "success")
        /\ df[i].status = "failure" =>
              df[i].error_code \in {"E-100", "E-200", "E-300"}

C6_Witness ==
    /\ pc = "layout"
    /\ \E i, j \in DOMAIN df :
          /\ df[i].status = "failure" /\ df[i].error_code = "E-300"
          /\ df[j].status = "success" /\ df[j].error_code = "None"

\* the records of df on the selected machine
OnMachine(r) == r.machine_id = machine_id.v[1]
FailureOnMachine(r) == OnMachine(r) /\ r.status = "failure"

\* C7: with only a machine m selected, the callback keeps exactly the
\* records of m, total is their number, success_rate and failure_rate are
\* 100 * successes / total and 100 * failures / total to two decimals, and
\* the per-error-code counts are those of the failure rows of that set; 9
\* successes and 1 E-100 failure of M-1, and no other record, give 10,
\* "90.00%", "10.00%" and {E-100: 1}.
C7_MachineOnly ==
    (/\ pc = "serving"
     /\ Absent(start_date) /\ Absent(end_date) /\ Absent(error_codes)
     /\ ~Absent(machine_id)) =>
        LET kept == SelectSeq(df, OnMachine)
            failed == SelectSeq(df, FailureOnMachine)
            ok == CountRows(df, machine_id.v[1], "success")
            ko == CountRows(df, machine_id.v[1], "failure")
        IN  /\ out.filtered_df = kept
            /\ out.total_tasks = Len(kept)
            /\ Len(kept) > 0 =>
                  /\ IsPctOf(out.success_rate, ok, Len(kept))
                  /\ IsPctOf(out.failure_rate, ko, Len(kept))
            /\ DOMAIN out.error_distribution =
                  {failed[i].error_code : i \in DOMAIN failed}
            /\ \A c \in DOMAIN out.error_distribution :
                  out.error_distribution[c] =
                      Cardinality({i \in DOMAIN failed : failed[i].error_code = c})
            /\ (/\ Len(df) = 10 /\ machine_id = PyStr("M-1")
                /\ ok = 9 /\ ko = 1 /\ failed[1].error_code = "E-100") =>
                  /\ out.total_tasks = 10
                  /\ out.success_rate = "90.00%"
                  /\ out.failure_rate = "10.00%"
                  /\ out.error_distribution = [c \in {"E-100"} |-> 1]

C7_Witness ==
    /\ pc = "serving"
    /\ start_date = PyNone /\ end_date = PyNone /\ error_codes = PyNone
    /\ machine_id = PyStr("M-1")
    /\ Len(df) = 10
    /\ out.total_tasks = 10
    /\ out.success_rate = "90.00%"
    /\ out.failure_rate = "10.00%"
    /\ out.error_distribution = [c \in {"E-100"} |-> 1]

\* C8: once generated, the record set df is never changed by a callback
\* invocation, whatever its criteria.
C8_DfUnchangedAfterStartup ==
    [][pc # "start" => df' = df]_vars

C8_Witness ==
    /\ pc = "serving"
    /\ ~Absent(machine_id)
    /\ Len(out.filtered_df) > 0
    /\ Len(out.filtered_df) < Len(df)

\* the selection is a non-empty list of error codes present in the data,
\* "None" excluded
FromDropdown(ec) ==
    /\ ec.type = "list"
    /\ Len(ec.v) > 0
    /\ \A i \in DOMAIN ec.v :
          /\ ec.v[i] # "None"
          /\ \E j \in DOMAIN df : df[j].error_code = ec.v[i]

\* C9: with a non-empty selection of the dropdown's error codes, every
\* returned record has status failure, and a non-empty result reports
\* success_rate "0.00%" and failure_rate "100.00%".
C9_ErrorFilterOnlyFailures ==
    (pc = "serving" /\ FromDropdown(error_codes)) =>
        /\ \A i \in DOMAIN out.filtered_df :
              out.filtered_df[i].status = "failure"
        /\ out.filtered_df # <<>> =>
              /\ out.success_rate = "0.00%"
              /\ out.failure_rate = "100.00%"

C9_Witness ==
    /\ pc = "serving"
    /\ FromDropdown(error_codes)
    /\ \E j \in DOMAIN df : df[j].status = "success"
    /\ out.filtered_df # <<>>
    /\ out.success_rate = "0.00%"
    /\ out.failure_rate = "100.00%"

\* d is the date of a record of df and no record of df is earlier (later)
Earliest(d) ==
    /\ \E i \in DOMAIN df : DayOfRow(df[i]) = d
    /\ \A i \in DOMAIN df : d <= DayOfRow(df[i])
Latest(d) ==
    /\ \E i \in DOMAIN df : DayOfRow(df[i]) = d
    /\ \A i \in DOMAIN df : DayOfRow(df[i]) <= d

DefaultControls ==
    /\ start_date.type = "str" /\ Len(start_date.v) = 1 /\ Earliest(start_date.v[1])
    /\ end_date.type = "str" /\ Len(end_date.v) = 1 /\ Latest(end_date.v[1])
    /\ machine_id = PyNone
    /\ error_codes = PyNone

\* C10: the page loads with start_date the earliest and end_date the latest
\* record date and nothing else selected, and the callback then returns the
\* whole record set, total being the number of generated records.
C10_InitialLoadShowsAll ==
    /\ pc = "layout" => DefaultControls
    /\ (pc = "serving" /\ DefaultControls) =>
          /\ out.filtered_df = df
          /\ out.total_tasks = Len(df)

C10_Witness ==
    /\ pc = "serving"
    /\ DefaultControls
    /\ start_date # end_date
    /\ out.total_tasks = Len(df)
    /\ Len(df) >= 2

====
